---- MODULE Spec2Model ----
(***************************************************************************)
(* A model of swap-clef-test (src/main/main.go): the cheque value object   *)
(* with its signing encoding and hash, the cash-out request builder, the   *)
(* wallet transactor and the runChequebook flow.                           *)
(*                                                                         *)
(* Bytes are naturals in 0..255 and byte strings are sequences of bytes.   *)
(* A uint64 is held as four 16-bit words, most significant first, because  *)
(* the values of interest (2^63, 2^64-1) exceed TLC's 32-bit integers.     *)
(***************************************************************************)
EXTENDS Integers, Sequences, FiniteSets, TLC

VARIABLES
    cheque,      \* the ChequeParams handed to encodeForSignature / sigHash
    calls,       \* the completed encode/hash invocations, oldest first
    pc,          \* position in runChequebook / CashChequeBeneficiaryRequest
    run,         \* runChequebook's locals and its return value
    req,         \* CashChequeBeneficiaryRequest's arguments, locals and returns
    ledger,      \* the EthBackend: pending nonces and submitted transactions
    wallet,      \* the WalletBackend: its accounts and the calls it received
    env,         \* per call site of the cash-out flow: invocations, first failure
    stages,      \* the cash-out stages completed so far, in order of completion
    opts,        \* the *bind.TransactOpts returned by NewWalletTransactor
    signerCalls  \* the calls made to opts.Signer, with what each returned

pureVars == <<cheque, calls>>
flowVars == <<pc, run, req, ledger, env, stages>>
signerVars == <<opts, signerCalls>>

vars == <<cheque, calls, pc, run, req, ledger, wallet, env, stages, opts, signerCalls>>

\* An optional value (a nil pointer, a variable not yet assigned) is a sequence
\* of length 0 or 1.
None == <<>>
Some(x) == <<x>>

-----------------------------------------------------------------------------
(* Byte strings, addresses and 64-bit values                               *)

Zeros(n) == [i \in 1..n |-> 0]

\* common.Address is a [20]byte; AddrOf(k) is an address whose bytes are all
\* different, so that a swapped or shifted field shows.
AddrOf(k) == [i \in 1..20 |-> (16 * k + i) % 256]

ZeroAddress == Zeros(20)

\* A uint64 as <<w3, w2, w1, w0>>, value w3*2^48 + w2*2^32 + w1*2^16 + w0.
U64(a, b, c, d) == <<a, b, c, d>>

U64Zero == U64(0, 0, 0, 0)
U64Hundred == U64(0, 0, 0, 100)
U64MaxInt64 == U64(32767, 65535, 65535, 65535)
U64MinNeg == U64(32768, 0, 0, 0)
U64Max == U64(65535, 65535, 65535, 65535)
U64Mixed == U64(258, 772, 1286, 1800)

\* byte(v >> k) for k in {0, 8, ..., 56}
ByteShr(v, k) ==
    LET w == v[4 - (k \div 16)]
    IN  IF k % 16 = 8 THEN w \div 256 ELSE w % 256

\* binary.BigEndian.PutUint64(b[off:], v): b[off+0] = byte(v >> 56), ...,
\* b[off+7] = byte(v).
PutUint64(b, off, v) ==
    [i \in 1..Len(b) |->
        IF i > off /\ i <= off + 8 THEN ByteShr(v, 56 - 8 * (i - off - 1))
        ELSE b[i]]

-----------------------------------------------------------------------------
(* ChequeParams.encodeForSignature and ChequeParams.sigHash                *)

ChequeParams(contract, beneficiary, payout) ==
    [Contract |-> contract, Beneficiary |-> beneficiary, CumulativePayout |-> payout]

\* encodeForSignature writing the payout into the first 8 bytes of the 32
\* (cumulativePayoutBytes[:8] for cumulativePayoutBytes[24:]).
encodeForSignatureHighBytes(c) ==
    LET cumulativePayoutBytes == PutUint64(Zeros(32), 0, c.CumulativePayout)
        input == c.Contract
    IN  (input \o c.Beneficiary) \o cumulativePayoutBytes

encodeForSignature(c) ==
    LET cumulativePayoutBytes == PutUint64(Zeros(32), 24, c.CumulativePayout)
        input == c.Contract
    IN  (input \o c.Beneficiary) \o cumulativePayoutBytes

\* crypto.Keccak256 is a library digest: any byte string to 32 bytes.  The model
\* keeps its shape (fixed 32-byte output, a function of every input byte, of
\* its position and of the length) with a weighted checksum spread over 32
\* bytes.  Checksum(b, lo, hi) sums the weighted bytes lo..hi by halving.
RECURSIVE Checksum(_, _, _)
Checksum(b, lo, hi) ==
    IF lo > hi THEN 0
    ELSE IF lo = hi THEN ((b[lo] + 1) * (((7 * lo * lo + 13 * lo) % 251) + 1)) % 65521
    ELSE LET mid == (lo + hi) \div 2
         IN  (Checksum(b, lo, mid) + Checksum(b, mid + 1, hi)) % 65521

DigestSize == 32

Keccak256(b) ==
    LET s == (Checksum(b, 1, Len(b)) + Len(b)) % 65521
    IN  [i \in 1..DigestSize |-> (s * (i + 6) + i * i) % 256]

\* The literal "\x19Ethereum Signed Message:\n" of the format string.
MessagePrefix ==
    <<25, 69, 116, 104, 101, 114, 101, 117, 109, 32, 83, 105, 103, 110, 101,
      100, 32, 77, 101, 115, 115, 97, 103, 101, 58, 10>>

\* The verb %d: the decimal digits of n in ASCII.
RECURSIVE FormatDecimal(_)
FormatDecimal(n) ==
    IF n < 10 THEN <<48 + n>>
    ELSE FormatDecimal(n \div 10) \o <<48 + (n % 10)>>

\* []byte(fmt.Sprintf("\x19Ethereum Signed Message:\n%d%s", len(input), input)):
\* %s of a []byte writes its bytes as they are, and the string to []byte
\* conversion keeps every byte.
SprintfMessage(n, input) == (MessagePrefix \o FormatDecimal(n)) \o input

\* sigHash formatting the length of the encoding instead of the digest's.
withPrefixLenOfEncoded(c) ==
    LET encoded == encodeForSignature(c)
        input == Keccak256(encoded)
    IN  SprintfMessage(Len(encoded), input)

withPrefix(c) ==
    LET encoded == encodeForSignature(c)
        input == Keccak256(encoded)
    IN  SprintfMessage(Len(input), input)

sigHash(c) == Keccak256(withPrefix(c))

-----------------------------------------------------------------------------
(* big.Int, the ABI packing of cashChequeBeneficiary, transactions          *)

Invert(b) == [i \in 1..Len(b) |-> 255 - b[i]]

\* The index of the last byte of b that is not 255, 0 when there is none.
LastBelow255(b) ==
    LET S == {j \in 1..Len(b) : b[j] # 255}
    IN  IF S = {} THEN 0 ELSE CHOOSE j \in S : \A m \in S : m <= j

\* b + 1 modulo 2^(8 * Len(b)): the carry runs through the trailing 255s.
Increment(b) ==
    LET k == LastBelow255(b)
    IN  [j \in 1..Len(b) |-> IF j > k THEN 0 ELSE IF j = k THEN b[j] + 1 ELSE b[j]]

\* -x modulo 2^(8 * Len(b)) for the big-endian bytes b of x.
TwosComplement(b) == Increment(Invert(b))

\* big.NewInt(int64(v)) for a uint64 v: the conversion to int64 keeps the 64
\* bits, so a v with the top bit set becomes the negative number v - 2^64.
\* A big.Int is a sign and a magnitude (here 8 big-endian bytes).
BigIntOfUint64(v) ==
    LET bits == PutUint64(Zeros(8), 0, v)
        neg == bits[1] >= 128
    IN  [neg |-> neg, abs |-> IF neg THEN TwosComplement(bits) ELSE bits]

\* math.U256Bytes(x), as abi.Pack encodes a *big.Int for a uint256 argument:
\* x modulo 2^256 as 32 big-endian bytes (a negative x in two's complement).
U256Bytes(x) ==
    LET padded == Zeros(24) \o x.abs
    IN  IF x.neg THEN TwosComplement(padded) ELSE padded

\* A small length or offset as a 32-byte word.
WordOfNat(n) ==
    Zeros(28) \o <<(n \div 16777216) % 256, (n \div 65536) % 256, (n \div 256) % 256, n % 256>>

NatOfWord(w) == ((w[29] * 256 + w[30]) * 256 + w[31]) * 256 + w[32]

\* The 4-byte method ID of cashChequeBeneficiary(address,uint256,bytes).
MethodID == <<13, 95, 38, 89>>

PadRight(b) == b \o Zeros((32 - (Len(b) % 32)) % 32)

\* abi.Pack("cashChequeBeneficiary", recipient, amount, ownerSig): the method
\* ID, the static arguments and the offset of the dynamic one, then the
\* dynamic argument as its length and its bytes padded to a multiple of 32.
AbiPack(recipient, amount, ownerSig) ==
    ((((MethodID \o (Zeros(12) \o recipient)) \o U256Bytes(amount))
        \o WordOfNat(96)) \o WordOfNat(Len(ownerSig))) \o PadRight(ownerSig)

\* The decoding of such call data by the same scheme.
AbiUnpack(data) ==
    LET args == SubSeq(data, 5, Len(data))
        off == NatOfWord(SubSeq(args, 65, 96))
        n == NatOfWord(SubSeq(args, off + 1, off + 32))
    IN  [recipient |-> SubSeq(args, 13, 32),
         cumulativePayout |-> SubSeq(args, 33, 64),
         ownerSig |-> SubSeq(args, off + 33, off + 32 + n)]

GasLimit == 1000000

\* types.NewTransaction(nonce, to, amount, gasLimit, gasPrice, data); signedBy
\* is the address whose signature the transaction carries, if any.
NewTransaction(nonce, to, amount, gasLimit, gasPrice, data) ==
    [nonce |-> nonce, to |-> to, value |-> amount, gas |-> gasLimit,
     gasPrice |-> gasPrice, data |-> data, signedBy |-> None]

\* What wallet.SignTx(account, tx, nil) returns when it succeeds.
WithSignature(account, tx) == [tx EXCEPT !.signedBy = Some(account.Address)]

-----------------------------------------------------------------------------
(* The inputs the model draws from                                          *)

Account(a) == [Address |-> a]

A1 == AddrOf(1)
A2 == AddrOf(2)
C1 == AddrOf(10)
C2 == AddrOf(11)

Errors == {"e1", "e2"}
Nil == "nil"

\* errors.New("not authorized to sign this account")
NotAuthorized == "not authorized to sign this account"

Payouts == {U64Zero, U64Hundred, U64(0, 0, 1, 0), U64MaxInt64, U64MinNeg, U64Max, U64Mixed}

\* A signature of n bytes, as the external signer may return it.
SigOf(n) == [i \in 1..n |-> (7 * i + n) % 256]

Signatures == {SigOf(0), SigOf(1), SigOf(32), SigOf(65)}

IdleCheque == ChequeParams(ZeroAddress, ZeroAddress, U64Zero)

EmptyRun ==
    [account |-> None, address |-> ZeroAddress, cheque |-> None, hash |-> None,
     sig |-> None, tx |-> None, receipt |-> None, result |-> None]

EmptyReq ==
    [ret |-> "none", to |-> ZeroAddress,
     recipient |-> ZeroAddress, cheque |-> IdleCheque, ownerSig |-> <<>>,
     callData |-> None, nonce |-> None, gasPrice |-> None, tx |-> None, err |-> Nil]

CallSites ==
    {"SignData", "PendingNonceAt", "SuggestGasPrice", "SignTx", "SendTransaction", "WaitMined"}

EmptyEnv == [count |-> [s \in CallSites |-> 0], failure |-> None]

EmptyWallet == [accounts |-> <<>>, signData |-> <<>>, signTx |-> <<>>]

EmptyLedger == [pendingNonce |-> [a \in {A1, A2} |-> 0], sent |-> <<>>]

EmptyOpts == [From |-> ZeroAddress, account |-> Account(ZeroAddress)]

IdlePure == cheque = IdleCheque /\ calls = <<>>

IdleFlow ==
    /\ pc = "idle"
    /\ run = EmptyRun
    /\ req = EmptyReq
    /\ ledger = EmptyLedger
    /\ env = EmptyEnv
    /\ stages = <<>>

IdleSigner == opts = EmptyOpts /\ signerCalls = <<>>

-----------------------------------------------------------------------------
(* Calls of encodeForSignature and sigHash                                  *)

MaxCalls == 3

WideCheques ==
    {ChequeParams(c, b, p) : c \in {ZeroAddress, C1, C2}, b \in {ZeroAddress, A1, A2},
                             p \in Payouts}

\* Cheques of one contract, with payouts that rise and fall between calls.
SeriesCheques ==
    {ChequeParams(C1, b, p) : b \in {A1, A2}, p \in {U64Zero, U64Hundred, U64Max}}

U64Less(a, b) ==
    \E k \in 1..4 : a[k] < b[k] /\ \A j \in 1..(k - 1) : a[j] = b[j]

\* An invocation that remembers the highest payout seen for the contract and
\* beneficiary and refuses a cheque below it.
InvokeEnforcingMonotonic(c) ==
    IF \E k \in 1..Len(calls) :
           /\ calls[k].cheque.Contract = c.Contract
           /\ calls[k].cheque.Beneficiary = c.Beneficiary
           /\ U64Less(c.CumulativePayout, calls[k].cheque.CumulativePayout)
    THEN [cheque |-> c, encoded |-> <<>>, input |-> <<>>, withPrefix |-> <<>>, hash |-> <<>>]
    ELSE [cheque |-> c,
          encoded |-> encodeForSignature(c),
          input |-> Keccak256(encodeForSignature(c)),
          withPrefix |-> withPrefix(c),
          hash |-> sigHash(c)]

\* One invocation of both methods on the cheque c: what each returned, with
\* the intermediate values of sigHash (input and withPrefix).
Invoke(c) ==
    [cheque |-> c,
     encoded |-> encodeForSignature(c),
     input |-> Keccak256(encodeForSignature(c)),
     withPrefix |-> withPrefix(c),
     hash |-> sigHash(c)]

InitEncode ==
    /\ cheque \in WideCheques
    /\ calls = <<>>
    /\ wallet = EmptyWallet
    /\ IdleFlow
    /\ IdleSigner

\* The first call on a cheque.
CallOnce ==
    /\ calls = <<>>
    /\ calls' = <<Invoke(cheque)>>
    /\ UNCHANGED <<cheque, flowVars, wallet, signerVars>>

NextEncode == CallOnce

SpecEncode == InitEncode /\ [][NextEncode]_vars

InitSeries ==
    /\ cheque \in SeriesCheques
    /\ calls = <<>>
    /\ wallet = EmptyWallet
    /\ IdleFlow
    /\ IdleSigner

\* A call on the current cheque, after which the caller makes up the next
\* cheque (cheques are never mutated: a new payout is a new ChequeParams).
CallNext ==
    /\ Len(calls) < MaxCalls
    /\ calls' = Append(calls, Invoke(cheque))
    /\ cheque' \in SeriesCheques
    /\ UNCHANGED <<flowVars, wallet, signerVars>>

NextSeries == CallNext

SpecSeries == InitSeries /\ [][NextSeries]_vars

-----------------------------------------------------------------------------
(* NewWalletTransactor and the Signer it returns                            *)

\* wallet.SignTx(account, tx, nil) is the external signer: it returns the
\* signed transaction (outcome "ok") or an error of its own.
WalletSignTx(account, tx, outcome) ==
    IF outcome = "ok"
    THEN [account |-> account, tx |-> tx, retTx |-> Some(WithSignature(account, tx)), retErr |-> Nil]
    ELSE [account |-> account, tx |-> tx, retTx |-> None, retErr |-> outcome]

\* The TransactOpts: From and, captured by the Signer closure, the account.
NewWalletTransactor(account) == [From |-> account.Address, account |-> account]

\* A Signer that forwards every request to the wallet.
SignerUnchecked(o, address, transaction, outcome) ==
    LET w == WalletSignTx(o.account, transaction, outcome)
    IN  [tx |-> w.retTx, err |-> w.retErr, signTx |-> <<w>>]

\* opts.Signer(signer, address, transaction): what it returns and the calls
\* of wallet.SignTx it makes.
Signer(o, address, transaction, outcome) ==
    IF address # o.account.Address
    THEN [tx |-> None, err |-> NotAuthorized, signTx |-> <<>>]
    ELSE LET w == WalletSignTx(o.account, transaction, outcome)
         IN  [tx |-> w.retTx, err |-> w.retErr, signTx |-> <<w>>]

MaxSignerCalls == 2

RawTxs ==
    {NewTransaction(0, C1, 0, GasLimit, 1, <<>>),
     NewTransaction(1, C2, 0, GasLimit, 20, MethodID)}

InitSigner ==
    /\ wallet = [EmptyWallet EXCEPT !.accounts = <<Account(A1), Account(A2)>>]
    /\ \E a \in {A1, A2} : opts = NewWalletTransactor(Account(a))
    /\ signerCalls = <<>>
    /\ IdlePure
    /\ IdleFlow

\* Some holder of the TransactOpts calls its Signer.
SignerCall ==
    \E address \in {A1, A2, ZeroAddress}, transaction \in RawTxs,
       outcome \in {"ok"} \cup Errors :
        LET r == Signer(opts, address, transaction, outcome)
        IN  /\ Len(signerCalls) < MaxSignerCalls
            /\ wallet' = [wallet EXCEPT !.signTx = @ \o r.signTx]
            /\ signerCalls' = Append(signerCalls,
                    [address |-> address, transaction |-> transaction,
                     tx |-> r.tx, err |-> r.err,
                     walletBefore |-> Len(wallet.signTx),
                     walletAfter |-> Len(wallet.signTx) + Len(r.signTx)])
            /\ UNCHANGED <<opts, pureVars, flowVars>>

NextSigner == SignerCall

SpecSigner == InitSigner /\ [][NextSigner]_vars

-----------------------------------------------------------------------------
(* CashChequeBeneficiaryRequest                                             *)

MaxNonce == 1

GasPrices == {1, 20}

\* A call of the cash-out flow to the signer or the ledger client is counted,
\* and the first one to fail is remembered with its error.
Called(site) == [env EXCEPT !.count[site] = @ + 1]

Failed(site, e) ==
    [env EXCEPT !.count[site] = @ + 1,
                !.failure = IF @ = None THEN Some([call |-> site, err |-> e]) ELSE @]

\* abi.JSON of the contract's ABI (a constant of the bindings, which parses)
\* and abi.Pack of the three arguments, whose Go types are the ones the
\* method takes: neither returns an error here.
ReqPack ==
    /\ pc = "req_pack"
    /\ req' = [req EXCEPT !.callData =
                  Some(AbiPack(req.recipient, BigIntOfUint64(req.cheque.CumulativePayout),
                               req.ownerSig))]
    /\ stages' = Append(stages, "CallDataBuilt")
    /\ pc' = "req_nonce"
    /\ UNCHANGED <<run, ledger, env, wallet, pureVars, signerVars>>

\* The nonce query continuing with nonce 0 when it fails.
ReqPendingNonceAtIgnoringError ==
    /\ pc = "req_nonce"
    /\ \/ \E e \in Errors :
            /\ env' = Failed("PendingNonceAt", e)
            /\ req' = [req EXCEPT !.nonce = Some(0)]
       \/ /\ env' = Called("PendingNonceAt")
          /\ req' = [req EXCEPT !.nonce = Some(ledger.pendingNonce[req.cheque.Beneficiary])]
    /\ pc' = "req_gasPrice"
    /\ UNCHANGED <<run, ledger, stages, wallet, pureVars, signerVars>>

\* backend.PendingNonceAt(ctx, cheque.Beneficiary)
ReqPendingNonceAt ==
    /\ pc = "req_nonce"
    /\ \/ \E e \in Errors :
            /\ env' = Failed("PendingNonceAt", e)
            /\ req' = [req EXCEPT !.err = e]
            /\ pc' = "req_done"
       \/ /\ env' = Called("PendingNonceAt")
          /\ req' = [req EXCEPT !.nonce = Some(ledger.pendingNonce[req.cheque.Beneficiary])]
          /\ pc' = "req_gasPrice"
    /\ UNCHANGED <<run, ledger, stages, wallet, pureVars, signerVars>>

\* backend.SuggestGasPrice(ctx)
ReqSuggestGasPrice ==
    /\ pc = "req_gasPrice"
    /\ \/ \E e \in Errors :
            /\ env' = Failed("SuggestGasPrice", e)
            /\ req' = [req EXCEPT !.err = e]
            /\ pc' = "req_done"
       \/ \E g \in GasPrices :
            /\ env' = Called("SuggestGasPrice")
            /\ req' = [req EXCEPT !.gasPrice = Some(g)]
            /\ pc' = "req_newTx"
    /\ UNCHANGED <<run, ledger, stages, wallet, pureVars, signerVars>>

\* return types.NewTransaction(nonce, to, big.NewInt(0), 1000000, gasPrice, callData), nil
ReqNewTransaction ==
    /\ pc = "req_newTx"
    /\ req' = [req EXCEPT !.tx =
                  Some(NewTransaction(req.nonce[1], req.to, 0, GasLimit, req.gasPrice[1],
                                      req.callData[1]))]
    /\ stages' = Append(stages, "TransactionBuilt")
    /\ pc' = "req_done"
    /\ UNCHANGED <<run, ledger, env, wallet, pureVars, signerVars>>

RequestStep == ReqPack \/ ReqPendingNonceAt \/ ReqSuggestGasPrice \/ ReqNewTransaction

\* SendTransaction accepted by the ledger: the transaction is pending and the
\* pending nonce of the account that signed it moves on.
Submit(l, tx) ==
    [l EXCEPT !.sent = Append(@, tx),
              !.pendingNonce[tx.signedBy[1]] = @ + 1]

(* A caller of CashChequeBeneficiaryRequest other than runChequebook: any     *)
(* cheque, contract, recipient and signature, and an account of its own with *)
(* which it signs and submits the transaction it gets back.                  *)

RequestCheques ==
    {ChequeParams(C1, b, p) : b \in {A1, A2},
                              p \in {U64Zero, U64Hundred, U64MaxInt64, U64MinNeg, U64Max, U64Mixed}}

\* A recipient address like the one of the demonstration flow.
Rec == <<173, 79, 110, 252, 101, 148, 254, 147, 5, 191, 154, 105, 186, 184, 189, 148, 42,
         218, 236, 219>>

InitRequest ==
    /\ pc = "req_pack"
    /\ \E a \in {A1, A2} :
          /\ wallet = [EmptyWallet EXCEPT !.accounts = <<Account(a)>>]
          /\ run = [EmptyRun EXCEPT !.account = Some(Account(a))]
    /\ \E to \in {C1, C2}, recipient \in {Rec, A1}, c \in RequestCheques, sig \in Signatures :
          req = [EmptyReq EXCEPT !.ret = "caller", !.to = to, !.recipient = recipient,
                                 !.cheque = c, !.ownerSig = sig]
    /\ \E n \in [{A1, A2} -> 0..MaxNonce] : ledger = [EmptyLedger EXCEPT !.pendingNonce = n]
    /\ env = EmptyEnv
    /\ stages = <<>>
    /\ IdlePure
    /\ IdleSigner

\* The caller gets (nil, err) back.
CallerGetsError ==
    /\ pc = "req_done"
    /\ req.ret = "caller"
    /\ req.err # Nil
    /\ run' = [run EXCEPT !.result = Some(req.err)]
    /\ pc' = "done"
    /\ UNCHANGED <<req, ledger, env, stages, wallet, pureVars, signerVars>>

\* The caller gets (tx, nil) back, has its account sign tx and submits it.
CallerSubmits ==
    /\ pc = "req_done"
    /\ req.ret = "caller"
    /\ req.err = Nil
    /\ LET w == WalletSignTx(run.account[1], req.tx[1], "ok")
       IN  /\ wallet' = [wallet EXCEPT !.signTx = Append(@, w)]
           /\ run' = [run EXCEPT !.tx = w.retTx, !.result = Some(Nil)]
           /\ ledger' = Submit(ledger, w.retTx[1])
    /\ pc' = "done"
    /\ UNCHANGED <<req, env, stages, pureVars, signerVars>>

NextRequest == RequestStep \/ CallerGetsError \/ CallerSubmits

SpecRequest == InitRequest /\ [][NextRequest]_vars

-----------------------------------------------------------------------------
(* runChequebook                                                            *)

\* accounts.MimetypeTextPlain
MimetypeTextPlain == "text/plain"

DeploymentFailed == "contract deployment failed"

\* The logs of the DeploySimpleSwap receipt: parsed tells whether
\* factory.ParseSimpleSwapDeployed accepts the log.
SwapLog(a) == [parsed |-> TRUE, ContractAddress |-> a]
OtherLog == [parsed |-> FALSE, ContractAddress |-> ZeroAddress]

ReceiptLogs ==
    {<<>>, <<OtherLog>>, <<OtherLog, SwapLog(C1)>>, <<SwapLog(C2), SwapLog(C1)>>,
     <<SwapLog(ZeroAddress)>>}

\* The loop of lines 108-114: the address of the first log that parses.
RECURSIVE FirstDeployed(_, _)
FirstDeployed(logs, i) ==
    IF i > Len(logs) THEN ZeroAddress
    ELSE IF logs[i].parsed THEN logs[i].ContractAddress
    ELSE FirstDeployed(logs, i + 1)

Return(e) == [run EXCEPT !.result = Some(e)]

InitRun ==
    /\ pc = "accounts"
    /\ \E accts \in {<<>>, <<Account(A1)>>, <<Account(A2), Account(A1)>>} :
          wallet = [EmptyWallet EXCEPT !.accounts = accts]
    /\ \E n \in [{A1, A2} -> 0..MaxNonce] : ledger = [EmptyLedger EXCEPT !.pendingNonce = n]
    /\ run = EmptyRun
    /\ req = EmptyReq
    /\ env = EmptyEnv
    /\ stages = <<>>
    /\ IdlePure
    /\ IdleSigner

\* Lines 72-74: wallet.Accounts()[0] (an index out of range panics) and the
\* transactor for that account.
RunAccounts ==
    /\ pc = "accounts"
    /\ IF wallet.accounts = <<>>
       THEN /\ pc' = "panicked"
            /\ UNCHANGED <<run, opts>>
       ELSE /\ run' = [run EXCEPT !.account = Some(wallet.accounts[1])]
            /\ opts' = NewWalletTransactor(wallet.accounts[1])
            /\ pc' = "deployERC20"
    /\ UNCHANGED <<req, ledger, env, stages, wallet, pureVars, signerCalls>>

\* A transaction made by the contract bindings with opts (a deployment or a
\* contract method): the bindings query the ledger, have opts.Signer sign for
\* opts.From and submit; any of it may fail, and the error is returned.
Transact(here, next) ==
    /\ pc = here
    /\ \/ \E e \in Errors :
            /\ run' = Return(e)
            /\ pc' = "done"
            /\ UNCHANGED <<ledger, wallet>>
       \/ \E outcome \in {"ok"} \cup Errors :
            LET rawTx == NewTransaction(ledger.pendingNonce[opts.From], ZeroAddress, 0,
                                        GasLimit, 1, <<>>)
                r == Signer(opts, opts.From, rawTx, outcome)
            IN  /\ wallet' = [wallet EXCEPT !.signTx = @ \o r.signTx]
                /\ IF r.err # Nil
                   THEN /\ run' = Return(r.err)
                        /\ pc' = "done"
                        /\ UNCHANGED ledger
                   ELSE /\ ledger' = Submit(ledger, r.tx[1])
                        /\ pc' = next
                        /\ UNCHANGED run
    /\ UNCHANGED <<req, env, stages, pureVars, signerVars>>

\* bind.WaitDeployed / bind.WaitMined of a transaction of the set-up, whose
\* receipt is not looked at.
Wait(here, next) ==
    /\ pc = here
    /\ \/ \E e \in Errors : run' = Return(e) /\ pc' = "done"
       \/ /\ run' = [run EXCEPT !.receipt = Some([Status |-> 1, Logs |-> <<>>])]
          /\ pc' = next
    /\ UNCHANGED <<req, ledger, env, stages, wallet, pureVars, signerVars>>

RunDeployERC20 == Transact("deployERC20", "waitERC20")
RunWaitERC20 == Wait("waitERC20", "deployFactory")
RunDeployFactory == Transact("deployFactory", "waitFactory")
RunWaitFactory == Wait("waitFactory", "deploySimpleSwap")
RunDeploySimpleSwap == Transact("deploySimpleSwap", "waitSimpleSwap")

\* Line 103: the receipt of the DeploySimpleSwap transaction, with its logs.
RunWaitSimpleSwap ==
    /\ pc = "waitSimpleSwap"
    /\ \/ \E e \in Errors : run' = Return(e) /\ pc' = "done"
       \/ \E logs \in ReceiptLogs :
            /\ run' = [run EXCEPT !.receipt = Some([Status |-> 1, Logs |-> logs])]
            /\ pc' = "parseLogs"
    /\ UNCHANGED <<req, ledger, env, stages, wallet, pureVars, signerVars>>

\* Lines 108-119
RunParseLogs ==
    /\ pc = "parseLogs"
    /\ LET address == FirstDeployed(run.receipt[1].Logs, 1)
       IN  IF address = ZeroAddress
           THEN run' = Return(DeploymentFailed) /\ pc' = "done"
           ELSE run' = [run EXCEPT !.address = address] /\ pc' = "mint"
    /\ UNCHANGED <<req, ledger, env, stages, wallet, pureVars, signerVars>>

RunMint == Transact("mint", "waitMint")
RunWaitMint == Wait("waitMint", "newCheque")

\* Lines 131-135
RunNewCheque ==
    /\ pc = "newCheque"
    /\ run' = [run EXCEPT !.cheque =
                  Some(ChequeParams(run.address, run.account[1].Address, U64Hundred))]
    /\ stages' = Append(stages, "Issued")
    /\ pc' = "sigHash"
    /\ UNCHANGED <<req, ledger, env, wallet, pureVars, signerVars>>

\* Line 137, the argument cheque.sigHash(), evaluated before the call.
RunSigHash ==
    /\ pc = "sigHash"
    /\ run' = [run EXCEPT !.hash = Some(sigHash(run.cheque[1]))]
    /\ stages' = Append(stages, "HashComputed")
    /\ pc' = "signData"
    /\ UNCHANGED <<req, ledger, env, wallet, pureVars, signerVars>>

\* SignData handed the hash of the encoding without the message prefix.
RunSignDataInnerHash ==
    /\ pc = "signData"
    /\ wallet' = [wallet EXCEPT !.signData = Append(@,
                     [account |-> run.account[1], mimetype |-> MimetypeTextPlain,
                      data |-> Keccak256(encodeForSignature(run.cheque[1]))])]
    /\ \/ \E e \in Errors :
            /\ env' = Failed("SignData", e)
            /\ run' = Return(e)
            /\ pc' = "done"
            /\ UNCHANGED stages
       \/ \E sig \in Signatures :
            /\ env' = Called("SignData")
            /\ run' = [run EXCEPT !.sig = Some(sig)]
            /\ stages' = Append(stages, "Signed")
            /\ pc' = "request"
    /\ UNCHANGED <<req, ledger, pureVars, signerVars>>

\* Lines 137-140: wallet.SignData(account, accounts.MimetypeTextPlain, hash)
RunSignData ==
    /\ pc = "signData"
    /\ wallet' = [wallet EXCEPT !.signData = Append(@,
                     [account |-> run.account[1], mimetype |-> MimetypeTextPlain,
                      data |-> run.hash[1]])]
    /\ \/ \E e \in Errors :
            /\ env' = Failed("SignData", e)
            /\ run' = Return(e)
            /\ pc' = "done"
            /\ UNCHANGED stages
       \/ \E sig \in Signatures :
            /\ env' = Called("SignData")
            /\ run' = [run EXCEPT !.sig = Some(sig)]
            /\ stages' = Append(stages, "Signed")
            /\ pc' = "request"
    /\ UNCHANGED <<req, ledger, pureVars, signerVars>>

\* Lines 142-144: the call CashChequeBeneficiaryRequest(ethBackend, address, rec, cheque, sig)
RunRequest ==
    /\ pc = "request"
    /\ req' = [EmptyReq EXCEPT !.ret = "runChequebook", !.to = run.address, !.recipient = Rec,
                               !.cheque = run.cheque[1], !.ownerSig = run.sig[1]]
    /\ pc' = "req_pack"
    /\ UNCHANGED <<run, ledger, env, stages, wallet, pureVars, signerVars>>

\* Lines 144-147: tx, err = ...; if err != nil { return err }
RunAfterRequest ==
    /\ pc = "req_done"
    /\ req.ret = "runChequebook"
    /\ IF req.err # Nil
       THEN run' = Return(req.err) /\ pc' = "done"
       ELSE run' = [run EXCEPT !.tx = req.tx] /\ pc' = "signTx"
    /\ UNCHANGED <<req, ledger, env, stages, wallet, pureVars, signerVars>>

\* Lines 149-152: wallet.SignTx(account, tx, nil)
RunSignTx ==
    /\ pc = "signTx"
    /\ \E outcome \in {"ok"} \cup Errors :
          LET w == WalletSignTx(run.account[1], run.tx[1], outcome)
          IN  /\ wallet' = [wallet EXCEPT !.signTx = Append(@, w)]
              /\ IF w.retErr # Nil
                 THEN /\ env' = Failed("SignTx", w.retErr)
                      /\ run' = Return(w.retErr)
                      /\ pc' = "done"
                 ELSE /\ env' = Called("SignTx")
                      /\ run' = [run EXCEPT !.tx = w.retTx]
                      /\ pc' = "send"
    /\ UNCHANGED <<req, ledger, stages, pureVars, signerVars>>

\* Lines 154-157: ethBackend.SendTransaction(ctx, tx)
RunSendTransaction ==
    /\ pc = "send"
    /\ \/ \E e \in Errors :
            /\ env' = Failed("SendTransaction", e)
            /\ run' = Return(e)
            /\ pc' = "done"
            /\ UNCHANGED <<ledger, stages>>
       \/ /\ env' = Called("SendTransaction")
          /\ ledger' = Submit(ledger, run.tx[1])
          /\ stages' = Append(stages, "Submitted")
          /\ pc' = "waitMined"
          /\ UNCHANGED run
    /\ UNCHANGED <<req, wallet, pureVars, signerVars>>

\* Lines 159-164: bind.WaitMined returns the receipt of the mined transaction
\* whatever its status (1 success, 0 reverted); the status is printed.
RunWaitMined ==
    /\ pc = "waitMined"
    /\ \/ \E e \in Errors :
            /\ env' = Failed("WaitMined", e)
            /\ run' = Return(e)
            /\ pc' = "done"
            /\ UNCHANGED stages
       \/ \E status \in {0, 1} :
            /\ env' = Called("WaitMined")
            /\ run' = [run EXCEPT !.receipt = Some([Status |-> status, Logs |-> <<>>])]
            /\ stages' = Append(stages, "Mined")
            /\ pc' = "balanceOf"
    /\ UNCHANGED <<req, ledger, wallet, pureVars, signerVars>>

\* Lines 166-173: erc20.BalanceOf(nil, rec), the balance printed, return nil
RunBalanceOf ==
    /\ pc = "balanceOf"
    /\ \/ \E e \in Errors : run' = Return(e)
       \/ run' = Return(Nil)
    /\ pc' = "done"
    /\ UNCHANGED <<req, ledger, env, stages, wallet, pureVars, signerVars>>

NextRun ==
    \/ RunAccounts
    \/ RunDeployERC20 \/ RunWaitERC20
    \/ RunDeployFactory \/ RunWaitFactory
    \/ RunDeploySimpleSwap \/ RunWaitSimpleSwap \/ RunParseLogs
    \/ RunMint \/ RunWaitMint
    \/ RunNewCheque \/ RunSigHash \/ RunSignData \/ RunRequest
    \/ RequestStep
    \/ RunAfterRequest \/ RunSignTx \/ RunSendTransaction \/ RunWaitMined \/ RunBalanceOf

SpecRun == InitRun /\ [][NextRun]_vars

-----------------------------------------------------------------------------
(* Claims about the encoding and the signature hash                         *)

\* C1: every encoding is exactly 72 bytes: bytes 0..19 the contract address,
\* bytes 20..39 the beneficiary address, bytes 40..71 the payout as a 32-byte
\* big-endian unsigned integer, so bytes 40..63 are zero and a payout of 0
\* gives 32 zero bytes.
C1_EncodingLayout ==
    \A k \in 1..Len(calls) :
        LET e == calls[k].encoded
            c == calls[k].cheque
        IN  /\ Len(e) = 72
            /\ SubSeq(e, 1, 20) = c.Contract
            /\ SubSeq(e, 21, 40) = c.Beneficiary
            /\ \A i \in 41..64 : e[i] = 0
            /\ \A w \in 1..4 : e[64 + 2 * w - 1] * 256 + e[64 + 2 * w] = c.CumulativePayout[w]
            /\ (c.CumulativePayout = U64Zero => \A i \in 41..72 : e[i] = 0)

C1_Witness ==
    /\ Len(calls) = 1
    /\ calls[1].cheque = ChequeParams(C1, A2, U64Max)
    /\ Len(calls[1].encoded) = 72

\* C2: sigHash returns hash(PREFIX || "32" || H1) with H1 the hash of the
\* encoding: the bytes fed to the outer hash are the prefix, the two ASCII
\* characters '3' '2', and the 32 bytes of H1, nothing added or dropped.
C2_SigHashPreimage ==
    \A k \in 1..Len(calls) :
        LET H1 == Keccak256(calls[k].encoded)
            fed == (MessagePrefix \o <<51, 50>>) \o H1
        IN  /\ Len(H1) = 32
            /\ calls[k].input = H1
            /\ calls[k].withPrefix = fed
            /\ Len(calls[k].withPrefix) = 26 + 2 + 32
            /\ calls[k].hash = Keccak256(fed)

C2_Witness ==
    /\ Len(calls) = 1
    /\ calls[1].cheque = ChequeParams(C2, A1, U64Hundred)
    /\ Len(calls[1].hash) = 32

\* C7: encoding and hash are history-independent: whatever calls came before,
\* also ones for the same contract and beneficiary with a larger payout, a
\* cheque is accepted and gets the same bytes as on any other call for it.
C7_HistoryIndependent ==
    /\ \A k \in 1..Len(calls) :
           Len(calls[k].encoded) = 72 /\ Len(calls[k].hash) = 32
    /\ \A i, j \in 1..Len(calls) :
           calls[i].cheque = calls[j].cheque =>
               /\ calls[i].encoded = calls[j].encoded
               /\ calls[i].hash = calls[j].hash

C7_Witness ==
    /\ Len(calls) = 3
    /\ calls[1].cheque = ChequeParams(C1, A1, U64Hundred)
    /\ calls[2].cheque = ChequeParams(C1, A1, U64Max)
    /\ calls[3].cheque = calls[1].cheque
    /\ calls[3].hash = calls[1].hash

-----------------------------------------------------------------------------
(* Claim about the wallet transactor                                        *)

\* C10: the transactor only asks the wallet to sign for its own account: a
\* Signer call with another address returns "not authorized to sign this
\* account", no transaction, and makes no wallet.SignTx call; a call with the
\* account's address makes exactly one wallet.SignTx call, for that account
\* and that transaction, and returns what the wallet returned.
C10_SignerOwnAccountOnly ==
    /\ \A k \in 1..Len(signerCalls) :
           LET s == signerCalls[k]
           IN  IF s.address # opts.account.Address
               THEN /\ s.err = NotAuthorized
                    /\ s.tx = None
                    /\ s.walletAfter = s.walletBefore
               ELSE /\ s.walletAfter = s.walletBefore + 1
                    /\ wallet.signTx[s.walletAfter].account = opts.account
                    /\ wallet.signTx[s.walletAfter].tx = s.transaction
                    /\ s.tx = wallet.signTx[s.walletAfter].retTx
                    /\ s.err = wallet.signTx[s.walletAfter].retErr
    /\ \A n \in 1..Len(wallet.signTx) : wallet.signTx[n].account = opts.account

C10_Witness ==
    /\ Len(signerCalls) = 2
    /\ signerCalls[1].address # opts.account.Address
    /\ signerCalls[1].err = NotAuthorized
    /\ signerCalls[2].address = opts.account.Address
    /\ signerCalls[2].tx # None
    /\ Len(wallet.signTx) = 1

-----------------------------------------------------------------------------
(* Claims about the cash-out flow                                           *)

\* The transactions of the cash-out (those carrying call data) among the
\* submitted ones.
CashOutsSent == {k \in 1..Len(ledger.sent) : ledger.sent[k].data # <<>>}

\* C3: when the receipt of the mined cash-out transaction indicates failure,
\* runChequebook returns a non-nil error: a reverted cash-out is never
\* reported as success.
C3_RevertReported ==
    (/\ pc = "done"
     /\ Len(stages) = 7
     /\ run.receipt # None
     /\ run.receipt[1].Status = 0)
        => (run.result # None /\ run.result # Some(Nil))

\* C4: the cumulativePayout packed into the call data equals the cheque's
\* CumulativePayout for every unsigned 64-bit value, so decoding the call data
\* recovers (recipient, cumulativePayout, ownerSignature) unchanged.
C4_CallDataRoundTrip ==
    req.callData # None =>
        LET d == AbiUnpack(req.callData[1])
            v == req.cheque.CumulativePayout
        IN  /\ SubSeq(req.callData[1], 1, 4) = MethodID
            /\ d.recipient = req.recipient
            /\ d.ownerSig = req.ownerSig
            /\ \A i \in 1..24 : d.cumulativePayout[i] = 0
            /\ \A w \in 1..4 :
                  d.cumulativePayout[24 + 2 * w - 1] * 256 + d.cumulativePayout[24 + 2 * w] = v[w]

StageOrder ==
    <<"Issued", "HashComputed", "Signed", "CallDataBuilt", "TransactionBuilt", "Submitted",
      "Mined">>

\* C5: the stages occur in the order Issued, HashComputed, Signed,
\* CallDataBuilt, TransactionBuilt, Submitted, Mined, each at most once and
\* none skipped; the signer is only handed the computed sigHash of the cheque,
\* call data is only built from a signature the signer returned for that hash,
\* and the transaction submitted is the built one, signed.
C5_StagesInOrder ==
    /\ Len(stages) <= Len(StageOrder)
    /\ stages = SubSeq(StageOrder, 1, Len(stages))
    /\ (Len(stages) >= 1) = (run.cheque # None)
    /\ (Len(stages) >= 2) = (run.hash # None)
    /\ (Len(stages) >= 3) = (run.sig # None)
    /\ (Len(stages) >= 4) = (req.callData # None)
    /\ (Len(stages) >= 5) = (req.tx # None)
    /\ (Len(stages) >= 6) = (CashOutsSent # {})
    /\ Len(wallet.signData) <= 1
    /\ \A k \in 1..Len(wallet.signData) :
          /\ Len(stages) >= 2
          /\ wallet.signData[k].data = sigHash(run.cheque[1])
    /\ req.callData # None =>
          /\ Len(wallet.signData) = 1
          /\ AbiUnpack(req.callData[1]).ownerSig = run.sig[1]
    /\ Cardinality(CashOutsSent) <= 1
    /\ \A k \in CashOutsSent :
          /\ req.tx # None
          /\ ledger.sent[k] = WithSignature(run.account[1], req.tx[1])

C5_Witness ==
    /\ pc = "done"
    /\ stages = StageOrder
    /\ run.result = Some(Nil)

SiteOrder ==
    [s \in CallSites |->
        CASE s = "SignData" -> 1
          [] s = "PendingNonceAt" -> 2
          [] s = "SuggestGasPrice" -> 3
          [] s = "SignTx" -> 4
          [] s = "SendTransaction" -> 5
          [] s = "WaitMined" -> 6]

\* C6: when a signer or ledger-client call of the cash-out flow fails, that
\* same error is what the operation returns, no call is made more than once,
\* and no later stage runs: no later call is made, no transaction is built
\* after a failed nonce or fee query, none is submitted after a failed signing.
C6_FailurePropagates ==
    /\ \A s \in CallSites : env.count[s] <= 1
    /\ env.failure # None =>
          LET f == env.failure[1]
          IN  /\ env.count[f.call] = 1
              /\ pc \in {"req_done", "done"}
              /\ pc = "req_done" => req.err = f.err
              /\ pc = "done" => run.result = Some(f.err)
              /\ \A s \in CallSites : SiteOrder[s] > SiteOrder[f.call] => env.count[s] = 0
              /\ f.call \in {"PendingNonceAt", "SuggestGasPrice"} => req.tx = None /\ run.tx = None
              /\ SiteOrder[f.call] <= SiteOrder["SendTransaction"] => CashOutsSent = {}
              /\ Len(stages) < 7

C6_Witness ==
    /\ pc = "done"
    /\ env.failure = Some([call |-> "SuggestGasPrice", err |-> "e2"])
    /\ run.result = Some("e2")
    /\ env.count["PendingNonceAt"] = 1

\* C8: the transaction CashChequeBeneficiaryRequest returns carries the pending
\* nonce of the account that signs and submits it (whoever the beneficiary
\* is), no value, the target contract as destination, the packed call data and
\* the suggested fee price.
C8_SenderNonce ==
    (pc = "req_done" /\ req.tx # None) =>
        /\ req.tx[1].nonce = ledger.pendingNonce[run.account[1].Address]
        /\ req.tx[1].value = 0
        /\ req.tx[1].to = req.to
        /\ req.tx[1].data = req.callData[1]
        /\ req.tx[1].gasPrice = req.gasPrice[1]

\* C9: a signature from the signer with the wrong length (not 65 bytes) is
\* rejected with a failure for the caller: no call data or transaction is
\* built or submitted from it.
C9_BadSignatureRejected ==
    (run.sig # None /\ Len(run.sig[1]) # 65) =>
        /\ req.callData = None
        /\ req.tx = None
        /\ CashOutsSent = {}
        /\ run.result # Some(Nil)

====
